---- MODULE Spec2Model ----
(***************************************************************************)
(* Model of src/popup.js: the capture lifecycle controller of the dual     *)
(* meter popup (startCapture / stopCapture, the draw loop, the click,      *)
(* unload and resize handlers) together with the collaborators it talks    *)
(* to (tabCapture, AudioContext, requestAnimationFrame, the two canvases   *)
(* and the status / error / toggle elements).                              *)
(*                                                                         *)
(* The page is single threaded.  One action of the model is one run of a   *)
(* handler from its entry to the point where it returns or suspends at an  *)
(* await; an exception thrown inside is followed to its catch block.       *)
(***************************************************************************)
EXTENDS Integers, FiniteSets, Sequences, TLC

(* ------------------------------ bounds -------------------------------- *)
\* number of startCapture() activations (and of the streams / contexts /
\* draw loops they create) that may be alive or leaked at the same time
MaxCalls == 2

Calls == 1..MaxCalls

\* fractional bits kept of a logarithm
FracBits == 6

(* --------------------------- program constants ------------------------ *)
null == 0

fftSize         == 2048
minDecibels     == -90
maxDecibels     == -10
BINS_PER_BUCKET == 8

frequencyBinCount == fftSize \div 2
BUCKETS           == frequencyBinCount \div BINS_PER_BUCKET

MsgIdle      == "Idle"
MsgStarting  == "Starting..."
MsgCapturing == "Capturing..."
MsgStopped   == "Stopped"
MsgError     == "Error"
MsgNoAudio   == "Permission denied or no audio available"
MsgFallback  == "Capture failed"
LabelStart   == "Start"
LabelStop    == "Stop"

(* ------------------------ values of the environment ------------------- *)
\* An error value as the code sees it: absent, an object carrying a
\* message, or an object / value whose .message is undefined.
NoErr        == [present |-> FALSE, hasMsg |-> FALSE, message |-> ""]
ErrWith(m)   == [present |-> TRUE,  hasMsg |-> TRUE,  message |-> m]
ErrNoMsg     == [present |-> TRUE,  hasMsg |-> FALSE, message |-> ""]

\* messages the collaborators may attach to their failures
CollabMsgs   == {"Extension has not been invoked for the current page"}
FaultMsgs    == {"InvalidStateError"}
NullDerefMsg == "Cannot read properties of null"

CaptureErrs  == {ErrWith(m) : m \in CollabMsgs} \cup {ErrNoMsg}
FaultErrs    == {ErrWith(m) : m \in FaultMsgs} \cup {ErrNoMsg}

\* what the host can present: the layout boxes (CSS pixels) of the two
\* canvases and window.devicePixelRatio, the latter in halves (0 is
\* "unavailable", 2 is 1.0, 3 is 1.5, 4 is 2.0, 6 is 3.0)
Screens == { [spec |-> <<4, 2>>, wave |-> <<4, 2>>, dprX2 |-> 2],
             [spec |-> <<4, 2>>, wave |-> <<4, 2>>, dprX2 |-> 0],
             [spec |-> <<4, 2>>, wave |-> <<4, 2>>, dprX2 |-> 6],
             [spec |-> <<3, 1>>, wave |-> <<5, 1>>, dprX2 |-> 3],
             [spec |-> <<3, 1>>, wave |-> <<5, 1>>, dprX2 |-> 4] }

\* bucket averages the analyser can deliver, in whole decibels; the lowest
\* stands for the -Infinity of a silent bin as well
DbValues == -130..10

VARIABLES
  stream,          \* let stream        : null or the acquired MediaStream
  audioContext,    \* let audioContext  : null or the AudioContext
  animationId,     \* let animationId   : null or a requestAnimationFrame handle
  isCapturing,     \* let isCapturing
  specWidth, specHeight, waveWidth, waveHeight,   \* logical sizes
  specCanvas, waveCanvas,    \* <<canvas.width, canvas.height>> backing store
  specPainted, wavePainted,  \* does the surface show a drawn frame
  specFrame,       \* the geometry the spectrum frame on show was drawn with
  teardown,        \* the steps stopCapture() took in the handler that ran last
  statusText,      \* statusEl.textContent
  errHidden,       \* errBox.hidden
  errText,         \* errBox.textContent
  toggleText,      \* toggleBtn.textContent
  toggleDisabled,  \* toggleBtn.disabled
  calls,           \* per startCapture() activation: where it is suspended
  pending,         \* frame callbacks scheduled and not yet run or cancelled
  liveStreams,     \* acquired streams whose tracks have not been stopped
  openContexts,    \* constructed AudioContexts on which close() was not called
  screen,          \* the host's layout boxes and devicePixelRatio
  escaped,         \* the handler that ran last let an error escape
  lastEvent,       \* which handler ran last, and with which input
  stopsInRow,      \* how many handlers in a row ended in stopCapture()
  viewClosed,      \* 'unload' was delivered and no click has followed it
  probe            \* a coordinate mapping applied to one input, and its result

cvars == <<stream, audioContext, animationId, isCapturing,
           specWidth, specHeight, waveWidth, waveHeight,
           specCanvas, waveCanvas, specPainted, wavePainted,
           statusText, errHidden, errText, toggleText, toggleDisabled,
           calls, pending, liveStreams, openContexts, escaped,
           specFrame, teardown>>

vars == <<cvars, screen, lastEvent, stopsInRow, viewClosed, probe>>

(* --------- the page state as one value, so that the functions of ------- *)
(* --------- the source can be written as functions on it         ------- *)
Now ==
  [ stream |-> stream, audioContext |-> audioContext,
    animationId |-> animationId, isCapturing |-> isCapturing,
    specWidth |-> specWidth, specHeight |-> specHeight,
    waveWidth |-> waveWidth, waveHeight |-> waveHeight,
    specCanvas |-> specCanvas, waveCanvas |-> waveCanvas,
    specPainted |-> specPainted, wavePainted |-> wavePainted,
    statusText |-> statusText, errHidden |-> errHidden, errText |-> errText,
    toggleText |-> toggleText, toggleDisabled |-> toggleDisabled,
    calls |-> calls, pending |-> pending,
    liveStreams |-> liveStreams, openContexts |-> openContexts,
    escaped |-> FALSE,
    specFrame |-> specFrame, teardown |-> <<>> ]

Become(s) ==
  /\ stream' = s.stream /\ audioContext' = s.audioContext
  /\ animationId' = s.animationId /\ isCapturing' = s.isCapturing
  /\ specWidth' = s.specWidth /\ specHeight' = s.specHeight
  /\ waveWidth' = s.waveWidth /\ waveHeight' = s.waveHeight
  /\ specCanvas' = s.specCanvas /\ waveCanvas' = s.waveCanvas
  /\ specPainted' = s.specPainted /\ wavePainted' = s.wavePainted
  /\ statusText' = s.statusText /\ errHidden' = s.errHidden
  /\ errText' = s.errText
  /\ toggleText' = s.toggleText /\ toggleDisabled' = s.toggleDisabled
  /\ calls' = s.calls /\ pending' = s.pending
  /\ liveStreams' = s.liveStreams /\ openContexts' = s.openContexts
  /\ escaped' = s.escaped
  /\ specFrame' = s.specFrame /\ teardown' = s.teardown

\* op: the handler and how it ended; call: the startCapture() activation it
\* belongs to (0: none); cause: the step that failed; err: the error value
\* the failing collaborator supplied (NoErr when it supplied none)
Event(op, call, cause, err) ==
  [op |-> op, call |-> call, cause |-> cause, err |-> err]

\* the handlers that end by running stopCapture()
StopOps == {"clickStop", "unload", "startFailed"}

Log(op, call, cause, err) ==
  /\ lastEvent' = Event(op, call, cause, err)
  /\ stopsInRow' = IF op \notin StopOps THEN 0
                   ELSE IF stopsInRow = 0 THEN 1 ELSE 2
  /\ viewClosed' = IF op = "unload" THEN TRUE
                   ELSE IF op \in {"clickStart", "clickStop", "startCall"}
                   THEN FALSE
                   ELSE viewClosed

(* ------------------------- coordinate mappings ------------------------- *)
Min(a, b) == IF a <= b THEN a ELSE b
Max(a, b) == IF a >= b THEN a ELSE b

RECURSIVE Pow2(_)
Pow2(k) == IF k = 0 THEN 1 ELSE 2 * Pow2(k - 1)

\* Math.log10 in fixed point.  logX only uses the ratio of two logarithms,
\* so the base cancels: LogFix(n) is log2(n) with FracBits fractional bits,
\* rounded down, computed by repeated squaring of the mantissa.
One == Pow2(FracBits + 4)

RECURSIVE IntLog2(_)
IntLog2(n) == IF n < 2 THEN 0 ELSE 1 + IntLog2(n \div 2)

RECURSIVE FracLog(_, _)
FracLog(x, bits) ==
  IF bits = 0 THEN 0
  ELSE LET sq == (x * x) \div One
       IN  IF sq >= 2 * One
           THEN Pow2(bits - 1) + FracLog(sq \div 2, bits - 1)
           ELSE FracLog(sq, bits - 1)

LogFix(n) ==
  LET k == IntLog2(n)
  IN  k * Pow2(FracBits) + FracLog((n * One) \div Pow2(k), FracBits)

\* const logWidth = Math.log10(freqData.length)
logWidth == LogFix(frequencyBinCount)

\* logX without the +1 that keeps bin 0 away from log(0) = -Infinity
logX_noOffset(bin, width) ==
  IF bin = 0 THEN (0 - Pow2(FracBits + 4)) * width ELSE LogFix(bin) * width

\* logX(bin) on a spectrum of the given logical width; the result is the
\* numerator of a fraction over logWidth
logX(bin, width) == LogFix(bin + 1) * width

\* const dbRange = analyser.maxDecibels - analyser.minDecibels
dbRange == maxDecibels - minDecibels

\* mapY without the clamp
mapY_noClamp(db, height) ==
  height * dbRange - (db - minDecibels) * height

\* mapY(db) on a spectrum of the given logical height; the result is the
\* numerator of a fraction over dbRange
mapY(db, height) ==
  LET n == Min(dbRange, Max(0, db - minDecibels))
  IN  height * dbRange - n * height

\* no spectrum frame is on show
NoFrame == [width |-> 0, height |-> 0, lastX |-> 0]

NoProbe == [fn |-> "none", arg |-> 0, size |-> 0, out |-> 0]

(* ------------------------------ helpers -------------------------------- *)
\* setupCanvas() that sizes the backing store in CSS pixels
setupCanvas_ignoresDpr(rect, dpr2) ==
  [ canvas |-> <<rect[1], rect[2]>>, width |-> rect[1], height |-> rect[2] ]

\* canvas.width / canvas.height are unsigned long attributes: the product
\* is truncated when it is stored
setupCanvas(rect, dpr2) ==
  LET d == IF dpr2 = 0 THEN 2 ELSE dpr2
  IN  [ canvas |-> <<(rect[1] * d) \div 2, (rect[2] * d) \div 2>>,
        width  |-> rect[1],
        height |-> rect[2] ]

\* assigning canvas.width resets the bitmap, so both surfaces come out blank
initCanvases(s, scr) ==
  LET spec == setupCanvas(scr.spec, scr.dprX2)
      wave == setupCanvas(scr.wave, scr.dprX2)
  IN  [s EXCEPT !.specCanvas = spec.canvas, !.waveCanvas = wave.canvas,
                !.specPainted = FALSE, !.wavePainted = FALSE,
                !.specFrame = NoFrame,
                !.specWidth = spec.width, !.specHeight = spec.height,
                !.waveWidth = wave.width, !.waveHeight = wave.height]

setStatus(s, text) == [s EXCEPT !.statusText = text]

showError(s, msg) ==
  setStatus([s EXCEPT !.errHidden = FALSE, !.errText = msg], MsgError)

clearError(s) == [s EXCEPT !.errHidden = TRUE, !.errText = ""]

clearCanvases(s) ==
  [s EXCEPT !.specPainted = FALSE, !.wavePainted = FALSE,
            !.specFrame = NoFrame]

(* --------------------------- frame scheduler --------------------------- *)
\* requestAnimationFrame hands out a handle that no scheduled callback
\* carries; only animationId ever remembers a handle, so the smallest such
\* number stands for "a fresh one"
requestAnimationFrame(s, owner) ==
  LET used == {p.id : p \in s.pending}
      h    == CHOOSE n \in 1..(MaxCalls + 1) :
                /\ n \notin used
                /\ \A m \in 1..(MaxCalls + 1) : m \notin used => n <= m
  IN  [ s |-> [s EXCEPT !.pending = @ \cup {[id |-> h, owner |-> owner]}],
        handle |-> h ]

\* cancelling a handle that is not scheduled (already run, stale) does nothing
cancelAnimationFrame(s, h) == [s EXCEPT !.pending = {p \in @ : p.id # h}]

(* ------------------------------ stopCapture ---------------------------- *)
\* close() without the .catch: the rejection goes unhandled
closeCatch_unhandled(s, rejection) ==
  IF rejection.present THEN [s EXCEPT !.escaped = TRUE] ELSE s

\* audioContext.close().catch(() => {}) : a rejection of close() ends here
closeCatch(s, rejection) == s

\* stopCapture() that releases everything but leaves isCapturing set
stopCapture_staysCapturing(s, rejection) ==
  LET s1 == IF s.animationId # null
            THEN [cancelAnimationFrame(s, s.animationId)
                    EXCEPT !.animationId = null]
            ELSE s
      s2 == IF s1.stream # null
            THEN [s1 EXCEPT !.liveStreams = @ \ {s1.stream}, !.stream = null]
            ELSE s1
      s3 == IF s2.audioContext # null
            THEN [closeCatch(s2, rejection)
                    EXCEPT !.openContexts = @ \ {s2.audioContext},
                           !.audioContext = null]
            ELSE s2
      s5 == setStatus(clearCanvases(s3), MsgStopped)
  IN  [s5 EXCEPT !.toggleText = LabelStart, !.toggleDisabled = FALSE]

\* stopCapture() that cancels the frame but keeps the stale handle
stopCapture_keepsHandle(s, rejection) ==
  LET s1 == IF s.animationId # null
            THEN cancelAnimationFrame(s, s.animationId)
            ELSE s
      s2 == IF s1.stream # null
            THEN [s1 EXCEPT !.liveStreams = @ \ {s1.stream}, !.stream = null]
            ELSE s1
      s3 == IF s2.audioContext # null
            THEN [closeCatch(s2, rejection)
                    EXCEPT !.openContexts = @ \ {s2.audioContext},
                           !.audioContext = null]
            ELSE s2
      s4 == clearCanvases(s3)
      s5 == setStatus([s4 EXCEPT !.isCapturing = FALSE], MsgStopped)
  IN  [s5 EXCEPT !.toggleText = LabelStart, !.toggleDisabled = FALSE]

stopCapture(s, rejection) ==
  LET s1 == IF s.animationId # null
            THEN [cancelAnimationFrame(s, s.animationId)
                    EXCEPT !.animationId = null,
                           !.teardown = Append(@, "cancel")]
            ELSE s
      s2 == IF s1.stream # null
            THEN [s1 EXCEPT !.liveStreams = @ \ {s1.stream}, !.stream = null,
                            !.teardown = Append(@, "tracks")]
            ELSE s1
      s3 == IF s2.audioContext # null
            THEN [closeCatch(s2, rejection)
                    EXCEPT !.openContexts = @ \ {s2.audioContext},
                           !.audioContext = null,
                           !.teardown = Append(@, "close")]
            ELSE s2
      s4 == [clearCanvases(s3) EXCEPT !.teardown = Append(@, "clear")]
      s5 == setStatus([s4 EXCEPT !.isCapturing = FALSE], MsgStopped)
  IN  [s5 EXCEPT !.toggleText = LabelStart, !.toggleDisabled = FALSE]

\* close() can only reject when stopCapture calls it
CloseRejections(s) ==
  IF s.audioContext # null THEN {NoErr} \cup FaultErrs ELSE {NoErr}

(* ------------------------------ startCapture --------------------------- *)
FreeCall(s, i) ==
  /\ s.calls[i] = "idle"
  /\ i \notin s.liveStreams
  /\ i \notin s.openContexts
  /\ \A p \in s.pending : p.owner # i

HasFreeCall(s) == \E i \in Calls : FreeCall(s, i)

NewCall(s) ==
  CHOOSE i \in Calls : FreeCall(s, i) /\ \A j \in Calls : FreeCall(s, j) => i <= j

\* startCapture() without its isCapturing guard
startCapture_noGuard(s) ==
  IF ~HasFreeCall(s) THEN s
  ELSE LET s1 == setStatus(clearError(s), MsgStarting)
       IN  [s1 EXCEPT !.toggleDisabled = TRUE,
                      !.calls[NewCall(s)] = "capture"]

\* startCapture() from its entry to the first await: the guard, the status
\* update and the capture request issued by captureAudio()
startCapture(s) ==
  IF s.isCapturing THEN s
  ELSE LET s1 == setStatus(clearError(s), MsgStarting)
       IN  [s1 EXCEPT !.toggleDisabled = TRUE,
                      !.calls[NewCall(s)] = "capture"]

\* the callback handed to chrome.tabCapture.capture
captureAudio(err, s) ==
  IF err.present \/ s = null
  THEN [ok |-> FALSE, value |-> null,
        err |-> IF err.present THEN err ELSE ErrWith(MsgNoAudio)]
  ELSE [ok |-> TRUE, value |-> s, err |-> NoErr]

\* e.message with no fallback for a missing message
errMessage_noFallback(e) == e.message

\* e?.message ?? 'Capture failed'
errMessage(e) == IF e.present /\ e.hasMsg THEN e.message ELSE MsgFallback

\* catch (e) { ... }
catchBlock(s, e, rejection) ==
  stopCapture([showError(s, errMessage(e)) EXCEPT !.toggleDisabled = FALSE],
              rejection)

\* the spectrum part of draw(): clearRect and the closing corners use
\* specWidth and specHeight, the buckets are placed by logX; lastX is the
\* x of the last bucket
spectrumFrame(s) ==
  [ width  |-> s.specWidth,
    height |-> s.specHeight,
    lastX  |-> logX((BUCKETS - 1) * BINS_PER_BUCKET, s.specWidth) ]

\* one run of draw() for the loop launched by activation i;
\* fault says which analyser read, if any, throws
draw(s, i, fault) ==
  LET spectrum == [s EXCEPT !.specPainted = TRUE,
                            !.specFrame = spectrumFrame(s)]
  IN  IF fault = "freq" THEN [s |-> s, threw |-> TRUE]
      ELSE IF fault = "time" THEN [s |-> spectrum, threw |-> TRUE]
      ELSE LET r == requestAnimationFrame(
                      [spectrum EXCEPT !.wavePainted = TRUE], i)
           IN  [s |-> [r.s EXCEPT !.animationId = r.handle], threw |-> FALSE]

\* startCapture() resumed when captureAudio() settles, up to the next await
\* or through the catch block.  result is what captureAudio() settled with,
\* ctorErr what new AudioContext() throws (if anything)
afterCapture(s, i, result, ctorErr, rejection) ==
  IF ~result.ok
  THEN catchBlock([s EXCEPT !.calls[i] = "idle"], result.err, rejection)
  ELSE LET s1 == [s EXCEPT !.stream = result.value]
       IN  IF ctorErr.present
           THEN catchBlock([s1 EXCEPT !.calls[i] = "idle"], ctorErr, rejection)
           ELSE [s1 EXCEPT !.audioContext = i,
                           !.openContexts = @ \cup {i},
                           !.calls[i] = "resume"]

\* startCapture() resumed when audioContext.resume() settles, to its end.
\* step is the first step that fails ("none": the start succeeds), e the
\* error a failing collaborator raises
afterResume(s, i, step, e, rejection) ==
  LET s0 == [s EXCEPT !.calls[i] = "idle"]
  IN  IF step = "resume" THEN catchBlock(s0, e, rejection)
      ELSE IF s0.audioContext = null \/ s0.stream = null
      THEN catchBlock(s0, ErrWith(NullDerefMsg), rejection)
      ELSE IF step = "graph" THEN catchBlock(s0, e, rejection)
      ELSE LET d == draw(s0, i, step)
           IN  IF d.threw THEN catchBlock(d.s, e, rejection)
               ELSE [setStatus([d.s EXCEPT !.isCapturing = TRUE], MsgCapturing)
                       EXCEPT !.toggleText = LabelStop,
                              !.toggleDisabled = FALSE]

(* ------------------------------ handlers ------------------------------- *)
\* toggleBtn 'click' listener
clickHandler(s, rejection) ==
  IF s.isCapturing THEN stopCapture(s, rejection) ELSE startCapture(s)

\* a resize listener that leaves the surfaces alone while capturing
resizeHandler_skipsWhileCapturing(s, scr) ==
  IF s.isCapturing THEN s ELSE clearCanvases(initCanvases(s, scr))

\* a resize listener that restarts from scratch while capturing
resizeHandler_stops(s, scr) ==
  LET s1 == initCanvases(s, scr)
  IN  IF ~s1.isCapturing THEN clearCanvases(s1) ELSE stopCapture(s1, NoErr)

\* window 'resize' listener, run after the host changed the layout boxes
\* and / or the device pixel ratio
resizeHandler(s, scr) ==
  LET s1 == initCanvases(s, scr)
  IN  IF ~s1.isCapturing THEN clearCanvases(s1) ELSE s1

(* ------------------------------ initial state -------------------------- *)
\* the state after the script has run: initCanvases(); setStatus('Idle').
\* The error box starts hidden and the button enabled and labelled Start.
Init ==
  /\ screen \in Screens
  /\ stream = null /\ audioContext = null /\ animationId = null
  /\ isCapturing = FALSE
  /\ specCanvas = setupCanvas(screen.spec, screen.dprX2).canvas
  /\ waveCanvas = setupCanvas(screen.wave, screen.dprX2).canvas
  /\ specWidth = setupCanvas(screen.spec, screen.dprX2).width
  /\ specHeight = setupCanvas(screen.spec, screen.dprX2).height
  /\ waveWidth = setupCanvas(screen.wave, screen.dprX2).width
  /\ waveHeight = setupCanvas(screen.wave, screen.dprX2).height
  /\ specPainted = FALSE /\ wavePainted = FALSE
  /\ statusText = MsgIdle
  /\ errHidden = TRUE /\ errText = ""
  /\ toggleText = LabelStart /\ toggleDisabled = FALSE
  /\ calls = [i \in Calls |-> "idle"]
  /\ pending = {}
  /\ liveStreams = {} /\ openContexts = {}
  /\ escaped = FALSE
  /\ specFrame = NoFrame /\ teardown = <<>>
  /\ lastEvent = Event("init", 0, "none", NoErr)
  /\ stopsInRow = 0
  /\ viewClosed = FALSE
  /\ probe = NoProbe

(* ------------------------------- actions ------------------------------- *)
\* a click reaches the listener only while the button is not disabled
ToggleClick ==
  /\ ~toggleDisabled
  /\ isCapturing \/ HasFreeCall(Now)
  /\ \E rejection \in (IF isCapturing THEN CloseRejections(Now) ELSE {NoErr}) :
       /\ Become(clickHandler(Now, rejection))
       /\ IF isCapturing
          THEN Log("clickStop", 0, "none", rejection)
          ELSE Log("clickStart", NewCall(Now), "none", NoErr)
  /\ UNCHANGED <<screen, probe>>

\* window 'unload' listener
Unload ==
  /\ \E rejection \in CloseRejections(Now) :
       /\ Become(stopCapture(Now, rejection))
       /\ Log("unload", 0, "none", rejection)
  /\ UNCHANGED <<screen, probe>>

Resize ==
  \E scr \in Screens :
    /\ screen' = scr
    /\ Become(resizeHandler(Now, scr))
    /\ Log("resize", 0,
           IF scr.spec[1] # specWidth THEN "widthChanged" ELSE "none", NoErr)
    /\ UNCHANGED probe

\* chrome.tabCapture.capture calls back for activation i: with a stream,
\* with lastError set, or with neither
CaptureCallback(i) ==
  /\ calls[i] = "capture"
  /\ \E err \in {NoErr} \cup CaptureErrs, got \in {null, i},
        ctorErr \in {NoErr} \cup FaultErrs :
       /\ err.present => got = null
       /\ (err.present \/ got = null) => ~ctorErr.present
       /\ LET result == captureAudio(err, got)
              s0     == IF got # null
                        THEN [Now EXCEPT !.liveStreams = @ \cup {got}]
                        ELSE Now
              caught == ~result.ok \/ ctorErr.present
          IN  \E rejection \in (IF caught /\ audioContext # null
                                THEN {NoErr} \cup FaultErrs ELSE {NoErr}) :
                /\ Become(afterCapture(s0, i, result, ctorErr, rejection))
                /\ IF ~result.ok
                   THEN Log("startFailed", i, "capture", err)
                   ELSE IF ctorErr.present
                   THEN Log("startFailed", i, "ctor", ctorErr)
                   ELSE Log("captureOk", i, "none", NoErr)
  /\ UNCHANGED <<screen, probe>>

StartSteps == {"none", "resume", "graph", "freq", "time"}

\* audioContext.resume() of activation i settles.  resume() on a context
\* that has been closed rejects; createMediaStreamSource on a null
\* audioContext or with a null stream throws a TypeError.
ResumeSettles(i) ==
  /\ calls[i] = "resume"
  /\ \E step \in StartSteps,
        e \in {NoErr} \cup FaultErrs \cup {ErrWith(NullDerefMsg)} :
       /\ e.present <=> step # "none"
       /\ i \notin openContexts => step = "resume"
       /\ (step # "resume" /\ (audioContext = null \/ stream = null))
             <=> (step = "graph" /\ e = ErrWith(NullDerefMsg))
       /\ \E rejection \in (IF step # "none" THEN CloseRejections(Now)
                                             ELSE {NoErr}) :
            /\ Become(afterResume(Now, i, step, e, rejection))
            /\ IF step = "none"
               THEN Log("startOk", i, "none", NoErr)
               ELSE Log("startFailed", i, step, e)
  /\ UNCHANGED <<screen, probe>>

\* the frame scheduler runs a scheduled draw(); an exception thrown by a
\* frame callback has no handler
Frame ==
  /\ \E p \in pending, fault \in {"none", "freq", "time"} :
       LET d == draw([Now EXCEPT !.pending = @ \ {p}], p.owner, fault)
       IN  /\ Become([d.s EXCEPT !.escaped = d.threw])
           /\ IF d.threw
              THEN Log("frameFault", p.owner, fault, ErrNoMsg)
              ELSE Log("frame", p.owner,
                       IF lastEvent.op = "resize"
                          /\ lastEvent.cause = "widthChanged"
                       THEN "afterResize" ELSE "none", NoErr)
  /\ UNCHANGED <<screen, probe>>

\* startCapture() called directly, not through the click listener
StartCall ==
  /\ isCapturing \/ HasFreeCall(Now)
  /\ Become(startCapture(Now))
  /\ Log("startCall", IF isCapturing THEN 0 ELSE NewCall(Now), "none", NoErr)
  /\ UNCHANGED <<screen, probe>>

Next ==
  \/ ToggleClick
  \/ Unload
  \/ Resize
  \/ \E i \in Calls : CaptureCallback(i)
  \/ \E i \in Calls : ResumeSettles(i)
  \/ Frame

Spec == Init /\ [][Next]_vars

\* the two mappings of the spectrum, each applied once to a single input
\* on the logical size the spectrum surface has after loading
ProbeMapY ==
  /\ probe = NoProbe
  /\ \E db \in DbValues :
       probe' = [fn |-> "mapY", arg |-> db, size |-> specHeight,
                 out |-> mapY(db, specHeight)]
  /\ UNCHANGED <<cvars, screen, lastEvent, stopsInRow, viewClosed>>

ProbeLogX ==
  /\ probe = NoProbe
  /\ \E bin \in 0..(frequencyBinCount - 1) :
       probe' = [fn |-> "logX", arg |-> bin, size |-> specWidth,
                 out |-> logX(bin, specWidth)]
  /\ UNCHANGED <<cvars, screen, lastEvent, stopsInRow, viewClosed>>

MapNext == ProbeMapY \/ ProbeLogX

MapSpec == Init /\ [][MapNext]_vars

\* the controller's start() as an operation of its own
ApiNext == Next \/ StartCall

ApiSpec == Init /\ [][ApiNext]_vars

TypeOK ==
  /\ stream \in {null} \cup Calls
  /\ audioContext \in {null} \cup Calls
  /\ animationId \in 0..(MaxCalls + 1)
  /\ isCapturing \in BOOLEAN
  /\ calls \in [Calls -> {"idle", "capture", "resume"}]
  /\ liveStreams \subseteq Calls
  /\ openContexts \subseteq Calls
  /\ statusText \in {MsgIdle, MsgStarting, MsgCapturing, MsgStopped, MsgError}
  /\ toggleText \in {LabelStart, LabelStop}

(* ======================= properties of the lifecycle =================== *)
Starting == \E i \in Calls : calls[i] # "idle"

\* what a session holds and what the user sees of the controller
sessionVars == <<stream, audioContext, animationId, isCapturing,
                 calls, pending, liveStreams, openContexts>>
uiVars == <<statusText, toggleText, toggleDisabled, errHidden, errText>>

\* C1: a start() invoked while isCapturing is true changes nothing: no
\* capture request is issued, no stream, context or frame callback is
\* created, and stream, audioContext, animationId, the status text and the
\* toggle button stay as they were.
StartWhileCapturingIsNoOp ==
  [][ (isCapturing /\ lastEvent'.op = "startCall")
        => UNCHANGED <<sessionVars, uiVars>> ]_vars

StartWhileCapturingWitness ==
  /\ isCapturing
  /\ lastEvent.op = "startCall"
  /\ stream # null /\ audioContext # null /\ animationId # null

\* C2: at most one capture session exists in any reachable state: at most
\* one acquired stream has unstopped tracks, at most one audio context is
\* open, at most one frame callback is scheduled.
AtMostOneSession ==
  /\ Cardinality(liveStreams) <= 1
  /\ Cardinality(openContexts) <= 1
  /\ Cardinality(pending) <= 1

\* C3: a start() invoked while an earlier start() is still Starting is
\* rejected: it issues no capture request (and so creates no session and
\* launches no render loop).
NoStartWhileStarting ==
  [][ (Starting /\ lastEvent'.op = "clickStart") => calls' = calls ]_vars

\* C4: stop() is idempotent.  After any handler that ends in stopCapture()
\* the controller is idle (isCapturing false; stream, audioContext and
\* animationId null; toggle enabled and labelled Start) and nothing
\* escaped; a stop() that directly follows another one changes nothing.
IdleAfterStop ==
  /\ ~isCapturing
  /\ stream = null /\ audioContext = null /\ animationId = null
  /\ ~toggleDisabled /\ toggleText = LabelStart
  /\ ~escaped

StopIsIdempotent ==
  /\ [](lastEvent.op \in StopOps => IdleAfterStop)
  /\ [][ (stopsInRow >= 1 /\ lastEvent'.op = "unload")
           => UNCHANGED <<sessionVars, uiVars, specPainted, wavePainted,
                          escaped>> ]_vars

StopTwiceWitness ==
  /\ stopsInRow = 2
  /\ lastEvent.op = "unload"
  /\ IdleAfterStop

\* C5: when a start() ends in failure its partial session is torn down:
\* the stream it acquired has its tracks stopped, the context it built is
\* not left open, none of its frame callbacks is scheduled, isCapturing is
\* false, the toggle is enabled and labelled Start, and no error escapes.
FailedStartTornDown ==
  lastEvent.op = "startFailed" =>
    /\ lastEvent.call \notin liveStreams
    /\ lastEvent.call \notin openContexts
    /\ \A p \in pending : p.owner # lastEvent.call
    /\ ~isCapturing
    /\ ~toggleDisabled /\ toggleText = LabelStart
    /\ ~escaped

\* C6 as stated: after a failed start() the error box is visible and shows
\* the message the failing collaborator supplied, or else the single
\* fallback string "Capture failed".
ErrorTextSingleFallback ==
  lastEvent.op = "startFailed" =>
    /\ ~errHidden
    /\ errText = IF lastEvent.err.present /\ lastEvent.err.hasMsg
                 THEN lastEvent.err.message
                 ELSE MsgFallback

\* C6 amended: after a failed start() the error box is visible and shows
\* the message the failing collaborator supplied; a capture callback that
\* delivered neither a stream nor an error shows "Permission denied or no
\* audio available", an error without a message shows "Capture failed".
ErrorTextAfterFailedStart ==
  lastEvent.op = "startFailed" =>
    /\ ~errHidden
    /\ errText = IF lastEvent.err.present /\ lastEvent.err.hasMsg
                 THEN lastEvent.err.message
                 ELSE IF lastEvent.err.present THEN MsgFallback
                 ELSE MsgNoAudio

ErrorTextWitness ==
  /\ lastEvent.op = "startFailed"
  /\ lastEvent.cause = "capture"
  /\ ~lastEvent.err.present
  /\ errText = MsgNoAudio

\* C7: a fault in any frame, the first one run inside start() or a later
\* one run by the scheduler, tears the session down (no frame scheduled,
\* stream and context released, isCapturing false) and shows the error.
FrameFaultStopsCapture ==
  ( \/ lastEvent.op = "frameFault"
    \/ (lastEvent.op = "startFailed" /\ lastEvent.cause \in {"freq", "time"}) )
  => /\ ~isCapturing
     /\ stream = null /\ audioContext = null /\ animationId = null
     /\ ~errHidden

\* C8: once the view has been unloaded and every start() that was pending
\* has run to its end, nothing is leaked: no stream with unstopped tracks,
\* no open audio context, no scheduled frame.
NoLeakAfterUnload ==
  (viewClosed /\ ~Starting) =>
    /\ liveStreams = {}
    /\ openContexts = {}
    /\ pending = {}

\* C9: a resize never cancels a capture: it leaves stream, audioContext,
\* animationId, isCapturing, the pending activations, the scheduled frame,
\* the status text, the error box and the toggle as they were.
ResizeKeepsCapture ==
  [][ lastEvent'.op = "resize" => UNCHANGED <<sessionVars, uiVars>> ]_vars

ResizeWhileCapturingWitness ==
  /\ lastEvent.op = "resize"
  /\ isCapturing
  /\ pending # {}
  /\ <<specWidth, specHeight>> = screen.spec

\* C10: a close() that rejects during stop() is swallowed: the surfaces are
\* cleared, isCapturing is false, the status reads Stopped, the toggle is
\* enabled and labelled Start, the error box is as it was and nothing
\* escapes the handler.
CloseFailureSwallowed ==
  [][ (lastEvent'.op \in {"clickStop", "unload"} /\ lastEvent'.err.present)
        => /\ ~specPainted' /\ ~wavePainted'
           /\ ~isCapturing'
           /\ audioContext' = null
           /\ statusText' = MsgStopped
           /\ ~toggleDisabled' /\ toggleText' = LabelStart
           /\ errHidden' = errHidden /\ errText' = errText
           /\ ~escaped' ]_vars

CloseFailureWitness ==
  /\ lastEvent.op = "clickStop"
  /\ lastEvent.err.present
  /\ statusText = MsgStopped

(* ========================= properties of the surfaces ================== *)
\* the device scale factor read by setupCanvas, in halves
ScaleX2 == IF screen.dprX2 = 0 THEN 2 ELSE screen.dprX2

Truncated(size, logical) ==
  /\ 2 * size <= logical * ScaleX2
  /\ logical * ScaleX2 < 2 * (size + 1)

Clamp(v, lo, hi) == Min(hi, Max(lo, v))

\* C12: mapY(d) is logicalHeight * (1 - clamp((d - min) / (max - min), 0, 1))
\* for every d; it does not increase with d, lies in [0, logicalHeight],
\* and with the range -90..-10 a reading of -50 gives logicalHeight / 2.
\* (All heights are numerators over dbRange.)
MapYIsClampedAndDecreasing ==
  probe.fn = "mapY" =>
    /\ probe.out = probe.size * (dbRange - Clamp(probe.arg - minDecibels, 0, dbRange))
    /\ 0 <= probe.out /\ probe.out <= probe.size * dbRange
    /\ \A d \in DbValues : d >= probe.arg => mapY(d, probe.size) <= probe.out
    /\ probe.arg = -50 => 2 * probe.out = probe.size * dbRange

MapYMidpointWitness ==
  /\ probe.fn = "mapY"
  /\ probe.arg = -50
  /\ probe.size = 2
  /\ probe.out = dbRange

\* C13: logX(bin) = log10(bin + 1) / log10(N) * W does not decrease with
\* the bin index over 0..N-1, is 0 at bin 0 and W at bin N-1, so every
\* plotted x lies in [0, W].  (All x are numerators over logWidth.)
LogXIsMonotoneOntoWidth ==
  probe.fn = "logX" =>
    /\ 0 <= probe.out /\ probe.out <= probe.size * logWidth
    /\ probe.arg = 0 => probe.out = 0
    /\ probe.arg = frequencyBinCount - 1 => probe.out = probe.size * logWidth
    /\ probe.arg < frequencyBinCount - 1
         => probe.out <= logX(probe.arg + 1, probe.size)

LogXLastBinWitness ==
  /\ probe.fn = "logX"
  /\ probe.arg = frequencyBinCount - 1
  /\ probe.size = 3
  /\ probe.out = 3 * logWidth
  /\ logWidth > 0

(* ========================= properties of the render loop =============== *)
\* the handlers in which draw() ran: a scheduled frame, or the first frame
\* inside startCapture (reached when the start succeeds or when that frame
\* throws)
FrameRan(e) ==
  \/ e.op \in {"frame", "frameFault", "startOk"}
  \/ (e.op = "startFailed" /\ e.cause \in {"freq", "time"})

\* C14: draw() only ever runs while isCapturing is true, the first frame
\* launched by start() included.
FramesOnlyWhileCapturing ==
  [][ FrameRan(lastEvent') => isCapturing ]_vars

\* C15: once stop() has returned no frame callback is left scheduled, so
\* no frame runs until a start() launches a loop again: the handle that
\* stop() cancels is the only continuation there is.
NoFrameAfterStop ==
  lastEvent.op \in StopOps => pending = {}

\* C16: within a stop() the steps come in the order cancel the frame, stop
\* the tracks, close the context, clear the surfaces, and no stream or
\* context is released while a frame callback is still scheduled.
Rank(step) ==
  CASE step = "cancel" -> 1
    [] step = "tracks" -> 2
    [] step = "close"  -> 3
    [] step = "clear"  -> 4

StepsInOrder ==
  \A i, j \in 1..Len(teardown) : i < j => Rank(teardown[i]) < Rank(teardown[j])

Released == \E i \in 1..Len(teardown) : teardown[i] \in {"tracks", "close"}

TeardownInOrder ==
  lastEvent.op \in StopOps =>
    /\ StepsInOrder
    /\ teardown # <<>> /\ teardown[Len(teardown)] = "clear"
    /\ Released => pending = {}

LoopAliveWhileCapturing ==
  isCapturing =>
    /\ animationId # null
    /\ \E p \in pending : p.id = animationId

\* C19: a spectrum frame is always computed from the logical width and
\* height of the most recent setupCanvas: after a resize the clear
\* rectangle, the closing corners and the x of the buckets follow the new
\* size, not the one in effect when start() ran.
FrameUsesCurrentSize ==
  (specPainted \/ lastEvent.op \in {"frame", "startOk"}) =>
    /\ specFrame.width = screen.spec[1]
    /\ specFrame.height = screen.spec[2]
    /\ specFrame.lastX = logX((BUCKETS - 1) * BINS_PER_BUCKET, screen.spec[1])
    /\ specFrame.lastX <= screen.spec[1] * logWidth

FrameAfterResizeWitness ==
  /\ lastEvent.op = "frame"
  /\ lastEvent.cause = "afterResize"
  /\ specPainted
  /\ specFrame.width = screen.spec[1]

\* C20: between handlers the status text tells the lifecycle state: Idle
\* before any start or stop, Starting... exactly while a start is pending,
\* Capturing... exactly while isCapturing, Stopped after a stop, Error
\* after a failed start.
StatusReflectsLifecycle ==
  /\ lastEvent.op = "init" => statusText = MsgIdle
  /\ statusText = MsgIdle => (~Starting /\ ~isCapturing)
  /\ statusText = MsgStarting <=> Starting
  /\ statusText = MsgCapturing <=> isCapturing
  /\ lastEvent.op \in {"clickStop", "unload"} => statusText = MsgStopped
  /\ lastEvent.op = "startFailed" => statusText = MsgError

====
